---- MODULE Spec2Model ----
(***************************************************************************)
(* Model of telethon/client/auth.py (class AuthMethods): the interactive   *)
(* start() flow, send_code_request, sign_in, sign_up, _on_login and        *)
(* log_out, as a state machine over the client's fields.  Every coroutine  *)
(* is cut at its suspension points: one action resumes an invocation with  *)
(* the outcome of the RPC or callback it awaits, runs the synchronous code *)
(* that follows and issues the next RPC.                                   *)
(***************************************************************************)
EXTENDS Integers, FiniteSets, Sequences, TLC

\* ------------------------------------------------------------------ bounds
\* Largest max_attempts argument passed to start().
MaxAttempts == 2
\* Number of phone_code_hash values the remote hands out in one behaviour.
MaxHash == 2
\* Number of AuthRestartError answers the remote gives to one invocation.
MaxRestarts == 1
\* Number of unparsable answers of a callable phone source that are counted;
\* phone_asks stays at MaxPhoneAsks + 1 from then on.
MaxPhoneAsks == 1

\* ------------------------------------------------------------- value sets
\* Invocations (coroutines) that may be in flight on the one client.
Procs == {1, 2}
\* Python's None, and the marker of a callable argument.
None == "None"
Callable == "callable"
\* Normalised phone numbers, the keys of self._phone_code_hash.
Phones == {"1", "2"}
\* Phone values a caller passes as they are typed.
RawPhones == {"+1", "2"}
\* A bot token: 'user_id:access_hash'.
BotToken == "7:tok"
\* What a callable phone source may return: a phone, a bot token, or a value
\* that is neither (an empty line, a typing error).
PhoneAnswers == {"+1", "", "x", BotToken}
\* What the code source returns: nothing, or a code.
CodeAnswers == {"", "12345"}
\* The code lengths an EmailUnconfirmedError may carry.
CodeLengths == {5, 6}
\* What a callable password source returns: nothing, or a password.
PasswordAnswers == {"", "pw"}

RpcKinds == {"SendCode", "ResendCode", "SignIn", "SignUp",
             "ImportBotAuthorization", "GetPassword", "CheckPassword",
             "AcceptTermsOfService", "LogOut",
             "UpdatePasswordSettings", "ConfirmPasswordEmail"}

\* The errors the code loop of _start reports as an invalid code.
CodeErrors == {"PhoneCodeEmptyError", "PhoneCodeExpiredError",
               "PhoneCodeHashEmptyError", "PhoneCodeInvalidError"}
\* What the remote may answer to SignIn and SignUp.
SignOutcomes == {"ok", "SessionPasswordNeededError",
                 "PhoneNumberOccupiedError", "PhoneNumberUnoccupiedError",
                 "FloodWaitError"} \cup CodeErrors

\* ------------------------------------------------------------------ state
VARIABLES
    authorized,        \* self._authorized
    bot,               \* self._bot: "None", "True" or "False"
    self_input_peer,   \* self._self_input_peer: "None" or "peer"
    state_cache,       \* self._state_cache: "loaded" or "empty"
    self_phone,        \* self._phone
    phone_code_hash,   \* self._phone_code_hash: phone -> hash (0: no entry)
    tos,               \* self._tos: "None" or "tos"
    connected,         \* self.is_connected()
    session,           \* the persisted session: "saved" or "deleted"
    hashSeq,           \* the remote: the last phone_code_hash it handed out
    issued,            \* the remote: hash -> the phone it was handed out for
    inv                \* the invocations: their arguments, locals and position

client == <<authorized, bot, self_input_peer, state_cache, self_phone,
            phone_code_hash, tos, connected, session>>
vars == <<authorized, bot, self_input_peer, state_cache, self_phone,
          phone_code_hash, tos, connected, session, hashSeq, issued, inv>>

NoReq == [kind |-> None, phone |-> None, hash |-> 0]

\* An invocation that is not running.
IdleInv ==
    [op |-> None, pc |-> "idle",
     phone |-> None, password |-> None, bot_token |-> None,
     force_sms |-> FALSE, max_attempts |-> 0,
     new_password |-> None, email |-> None, email_code_callback |-> None,
     sent_code |-> None, attempts |-> 0, sign_up |-> FALSE,
     two_step_detected |-> FALSE, me |-> None, tries |-> 0,
     value |-> None, caught |-> None,
     scr_phone |-> None, scr_force |-> FALSE, scr_ret |-> None,
     entry_hash |-> 0,
     req |-> NoReq, result |-> None, result_hash |-> 0, err |-> None,
     rpcs |-> [k \in RpcKinds |-> 0],
     phone_asks |-> 0, code_asks |-> 0, password_asks |-> 0,
     reports |-> 0, restarts |-> 0,
     path |-> None, sent_by |-> None, code_length |-> 0, cb_arg |-> 0]

\* ---------------------------------------------------------------- helpers
\* Python's `a or b` on values whose only falsy member here is None.
Or(a, b) == IF a = None THEN b ELSE a

\* utils.parse_phone: strips the '+' (and spaces, dashes, parentheses) and
\* answers the digits, or None when the value is no phone number.
parse_phone(v) ==
    CASE v = "+1" -> "1"
      [] v = "1" -> "1"
      [] v = "2" -> "2"
      [] OTHER -> None

\* self._phone_code_hash.get(phone): 0 stands for no entry.
HashGet(ph) == IF ph \in Phones THEN phone_code_hash[ph] ELSE 0

\* `await self(request)`: the request goes out and the invocation waits;
\* req is the last request the invocation has sent.
Issue(r, kind, ph, h) ==
    [r EXCEPT !.req = [kind |-> kind, phone |-> ph, hash |-> h],
              !.rpcs[kind] = @ + 1]

\* An exception leaves the invocation.
Raise(r, e) == [r EXCEPT !.pc = "raised", !.err = e]

\* The invocation returns `v`.
Return(r, v) == [r EXCEPT !.pc = "returned", !.result = v]

\* get_me(): the user when the session is authorized, else None.
get_me == IF authorized THEN "User" ELSE None

\* parse_phone_and_hash with the hash looked up under the active phone
\* (self._phone) in place of the phone that was resolved.
parse_phone_and_hash_of_active(ph, h) ==
    LET phone == Or(parse_phone(ph), self_phone)
    IN  <<phone, IF h # 0 THEN h ELSE HashGet(self_phone)>>

\* _parse_phone_and_hash(phone, phone_hash): <<phone, hash>>, where a None
\* phone or a hash of 0 stands for the ValueError it raises.
parse_phone_and_hash(ph, h) ==
    LET phone == Or(parse_phone(ph), self_phone)
    IN  <<phone, IF h # 0 THEN h ELSE HashGet(phone)>>

\* ------------------------------------------------- _start: the two loops
\* Lines 213-222: the name is printed and the client returned.
start_done(r) == Return(r, "self")

\* code_loop with the test off by one (attempts <= max_attempts).
code_loop_off_by_one(r) ==
    IF r.attempts <= r.max_attempts
    THEN [r EXCEPT !.pc = "code_callback"]
    ELSE Raise(r, "RuntimeError")

\* Lines 151 and 183-187: the test of the code loop and its else clause.
code_loop(r) ==
    IF r.attempts < r.max_attempts
    THEN [r EXCEPT !.pc = "code_callback"]
    ELSE Raise(r, "RuntimeError")

\* code_failed with the two occupancy handlers swapped.
code_failed_swapped(r, e) ==
    LET r1 == CASE e = "PhoneNumberOccupiedError" ->
                      [r EXCEPT !.sign_up = TRUE, !.caught = e]
                [] e = "PhoneNumberUnoccupiedError" ->
                      [r EXCEPT !.sign_up = FALSE, !.caught = e]
                [] OTHER ->
                      [r EXCEPT !.reports = @ + 1, !.caught = "CodeError"]
    IN  code_loop([r1 EXCEPT !.attempts = @ + 1])

\* Lines 172-182: a handled error of the code loop.  Occupancy errors set
\* sign_up, code errors are printed, and all of them reach `attempts += 1`.
\* caught is the except clause that was taken.
code_failed(r, e) ==
    LET r1 == CASE e = "PhoneNumberOccupiedError" ->
                      [r EXCEPT !.sign_up = FALSE, !.caught = e]
                [] e = "PhoneNumberUnoccupiedError" ->
                      [r EXCEPT !.sign_up = TRUE, !.caught = e]
                [] OTHER ->
                      [r EXCEPT !.reports = @ + 1, !.caught = "CodeError"]
    IN  code_loop([r1 EXCEPT !.attempts = @ + 1])

\* Lines 197 and 208-209: the password loop (for _ in range(max_attempts))
\* and its else clause; tries counts the iterations that have failed.
password_loop(r) ==
    IF r.tries < r.max_attempts
    THEN [r EXCEPT !.pc = "password_callback"]
    ELSE Raise(r, "PasswordHashInvalidError")

\* password_failed as if the fixed password too were submitted in the loop.
password_failed_always_retries(r) ==
    password_loop([r EXCEPT !.tries = @ + 1, !.reports = @ + 1,
                            !.caught = "PasswordHashInvalidError"])

\* Lines 205-209 and 211: CheckPassword answered PasswordHashInvalidError.
\* The loop over a callable source reports it and goes on; a fixed password
\* is submitted outside any try, so the error leaves start.
password_failed(r) ==
    IF r.op = "start" /\ r.password = Callable
    THEN password_loop([r EXCEPT !.tries = @ + 1, !.reports = @ + 1,
                                 !.caught = "PasswordHashInvalidError"])
    ELSE Raise(r, "PasswordHashInvalidError")

\* ------------------------------------------------------ send_code_request
\* send_code_request_enter without the look-up of the cached hash: every
\* call sends SendCode.
send_code_request_enter_no_cache(r, ph, fsms, ret) ==
    LET phone == Or(parse_phone(ph), self_phone)
    IN  [r |-> [Issue([r EXCEPT !.scr_phone = phone, !.scr_force = fsms,
                                !.scr_ret = ret],
                      "SendCode", phone, 0)
                   EXCEPT !.pc = "send_code"],
         self_phone |-> self_phone]

\* Lines 394-398 and 407-414: the phone and its cached hash are looked up;
\* without a hash SendCode goes out, with one the call turns into a resend.
send_code_request_enter(r, ph, fsms, ret) ==
    LET phone == Or(parse_phone(ph), self_phone)
        phone_hash == HashGet(phone)
        r1 == [r EXCEPT !.scr_phone = phone, !.scr_force = fsms,
                        !.scr_ret = ret]
    IN  IF phone_hash = 0
        THEN [r |-> [Issue(r1, "SendCode", phone, 0)
                        EXCEPT !.pc = "send_code"],
              self_phone |-> self_phone]
        ELSE [r |-> [Issue([r1 EXCEPT !.scr_force = TRUE],
                           "ResendCode", phone, phone_hash)
                        EXCEPT !.pc = "resend_code"],
              self_phone |-> phone]

\* sign_in's `return self._on_login(result.user)` or `return me`, seen from
\* its caller: _start leaves its loop (break) and finishes.
sign_in_return(r, me) ==
    IF r.op = "start" THEN start_done([r EXCEPT !.me = me])
    ELSE Return([r EXCEPT !.me = me], me)

\* Line 418 seen from the caller: _start (lines 149-151) derives sign_up and
\* enters the code loop; sign_in (line 280) hands the result on.
\* The result carries phone_registered and the new phone_code_hash; sent_by
\* is the request it answers.
send_code_request_return(r, registered, h) ==
    CASE r.scr_ret = "start" ->
            code_loop([r EXCEPT !.sent_code = IF registered THEN "Registered"
                                              ELSE "Unregistered",
                                !.sent_by = r.req.kind,
                                !.sign_up = ~registered])
      [] r.scr_ret = "sign_in" ->
            sign_in_return([r EXCEPT !.result_hash = h], "SentCode")
      [] OTHER -> Return([r EXCEPT !.result_hash = h], "SentCode")

\* ---------------------------------------------------- sign_in and sign_up
\* sign_in with the code submitted for the active phone (self._phone) in
\* place of the phone it was given.
sign_in_for_active_phone(r, ph, code, password, bot_token) ==
    IF get_me # None
    THEN [r |-> sign_in_return(r, get_me), self_phone |-> self_phone]
    ELSE IF ph # None /\ code = "" /\ password = ""
    THEN send_code_request_enter(r, ph, FALSE, "sign_in")
    ELSE IF code # ""
    THEN LET pp == parse_phone_and_hash(None, 0)
         IN  [r |-> IF pp[1] = None
                    THEN Raise(r, "ValueError:send_code_request")
                    ELSE IF pp[2] = 0
                    THEN Raise(r, "ValueError:phone_code_hash")
                    ELSE [Issue(r, "SignIn", pp[1], pp[2])
                             EXCEPT !.pc = "sign_in"],
              self_phone |-> self_phone]
    ELSE IF password # ""
    THEN [r |-> [Issue(r, "GetPassword", None, 0)
                    EXCEPT !.pc = "get_password"],
          self_phone |-> self_phone]
    ELSE IF bot_token # None
    THEN [r |-> [Issue(r, "ImportBotAuthorization", None, 0)
                    EXCEPT !.pc = "import_bot"],
          self_phone |-> self_phone]
    ELSE [r |-> Raise(r, "ValueError:sign_in"), self_phone |-> self_phone]

\* Lines 275-303: sign_in up to its first RPC.  code and password are ""
\* when absent or empty, bot_token is None when absent.
sign_in(r, ph, code, password, bot_token) ==
    IF get_me # None
    THEN [r |-> sign_in_return(r, get_me), self_phone |-> self_phone]
    ELSE IF ph # None /\ code = "" /\ password = ""
    THEN send_code_request_enter(r, ph, FALSE, "sign_in")
    ELSE IF code # ""
    THEN LET pp == parse_phone_and_hash(ph, 0)
         IN  [r |-> IF pp[1] = None
                    THEN Raise(r, "ValueError:send_code_request")
                    ELSE IF pp[2] = 0
                    THEN Raise(r, "ValueError:phone_code_hash")
                    ELSE [Issue(r, "SignIn", pp[1], pp[2])
                             EXCEPT !.pc = "sign_in"],
              self_phone |-> self_phone]
    ELSE IF password # ""
    THEN [r |-> [Issue(r, "GetPassword", None, 0)
                    EXCEPT !.pc = "get_password"],
          self_phone |-> self_phone]
    ELSE IF bot_token # None
    THEN [r |-> [Issue(r, "ImportBotAuthorization", None, 0)
                    EXCEPT !.pc = "import_bot"],
          self_phone |-> self_phone]
    ELSE [r |-> Raise(r, "ValueError:sign_in"), self_phone |-> self_phone]

\* Lines 339-360: sign_up up to its SignUp RPC, with the default
\* phone_code_hash (None); _start passes no phone either.
sign_up(r, ph) ==
    IF get_me # None
    THEN sign_in_return(r, get_me)
    ELSE LET pp == parse_phone_and_hash(ph, 0)
         IN  IF pp[1] = None
             THEN Raise(r, "ValueError:send_code_request")
             ELSE IF pp[2] = 0
             THEN Raise(r, "ValueError:phone_code_hash")
             ELSE [Issue(r, "SignUp", pp[1], pp[2]) EXCEPT !.pc = "sign_up"]

\* two_step with the test of the password made after GetPassword was sent.
two_step_checks_late(r) ==
    IF r.password = None
    THEN [r |-> Raise(Issue(r, "GetPassword", None, 0), "ValueError:password"),
          self_phone |-> self_phone]
    ELSE IF r.password = Callable
    THEN [r |-> password_loop(r), self_phone |-> self_phone]
    ELSE sign_in(r, r.phone, "", "pw", None)

\* Lines 189-211: after the code loop, with two_step_detected set.
two_step(r) ==
    IF r.password = None
    THEN [r |-> Raise(r, "ValueError:password"), self_phone |-> self_phone]
    ELSE IF r.password = Callable
    THEN [r |-> password_loop(r), self_phone |-> self_phone]
    ELSE sign_in(r, r.phone, "", "pw", None)

\* code_error with `attempts += 1` reached by the password-required exit
\* too (a `pass` in place of the `break` of line 171 would do that, once).
code_error_counts_password(r, e) ==
    IF e = "SessionPasswordNeededError"
    THEN two_step([r EXCEPT !.two_step_detected = TRUE,
                            !.attempts = @ + 1])
    ELSE IF e \in CodeErrors
              \cup {"PhoneNumberOccupiedError", "PhoneNumberUnoccupiedError"}
    THEN [r |-> code_failed(r, e), self_phone |-> self_phone]
    ELSE [r |-> Raise(r, e), self_phone |-> self_phone]

\* Lines 169-182: an error of sign_in or sign_up inside the code loop.
code_error(r, e) ==
    IF e = "SessionPasswordNeededError"
    THEN two_step([r EXCEPT !.two_step_detected = TRUE])
    ELSE IF e \in CodeErrors
              \cup {"PhoneNumberOccupiedError", "PhoneNumberUnoccupiedError"}
    THEN [r |-> code_failed(r, e), self_phone |-> self_phone]
    ELSE [r |-> Raise(r, e), self_phone |-> self_phone]

\* start_resolved as if the bot token were not looked at: every start asks
\* for a code.
start_resolved_ignores_token(r) ==
    send_code_request_enter(
      [r EXCEPT !.path = "phone",
                !.entry_hash = HashGet(Or(parse_phone(r.phone), self_phone))],
      r.phone, r.force_sms, "start")

\* Lines 141-149: the phone is resolved; a bot signs in, a phone asks for
\* the code.  path is the branch taken, entry_hash the hash that is cached
\* for the phone when its code is asked for.
start_resolved(r) ==
    IF r.bot_token # None
    THEN sign_in([r EXCEPT !.path = "bot"], None, "", "", r.bot_token)
    ELSE send_code_request_enter(
           [r EXCEPT !.path = "phone",
                     !.entry_hash = HashGet(Or(parse_phone(r.phone),
                                               self_phone))],
           r.phone, r.force_sms, "start")

\* _on_login: the fields it sets, for a user whose bot flag is `is_bot`.
on_login(is_bot) ==
    [bot |-> IF is_bot THEN "True" ELSE "False",
     self_input_peer |-> "peer",
     authorized |-> TRUE]

\* ------------------------------------------------------------------- Init
\* The client after construction: not connected, not authorized, no code
\* requested; the session file exists and the update state is loaded.
Init ==
    /\ authorized = FALSE
    /\ bot = None
    /\ self_input_peer = None
    /\ state_cache = "loaded"
    /\ self_phone = None
    /\ phone_code_hash = [ph \in Phones |-> 0]
    /\ tos = None
    /\ connected = FALSE
    /\ session = "saved"
    /\ hashSeq = 0
    /\ issued = [h \in 1..MaxHash |-> None]
    /\ inv = [p \in Procs |-> IdleInv]

\* Writes of one step: the invocation's record, self._phone, and the rest of
\* the client as named by the action itself.
Step(p, res) ==
    /\ inv' = [inv EXCEPT ![p] = res.r]
    /\ self_phone' = res.self_phone

Keep(r) == [r |-> r, self_phone |-> self_phone]

Login(is_bot) ==
    /\ bot' = on_login(is_bot).bot
    /\ self_input_peer' = on_login(is_bot).self_input_peer
    /\ authorized' = on_login(is_bot).authorized

NoLogin == UNCHANGED <<bot, self_input_peer, authorized>>

\* ------------------------------------------------------------------ start
\* Lines 87-116: start validates its arguments and runs _start.
start(p, phone, password, bot_token, code_callback, force_sms, max_attempts) ==
    /\ inv[p].pc = "idle"
    /\ LET r == [IdleInv EXCEPT !.op = "start"]
       IN  inv' = [inv EXCEPT ![p] =
             IF code_callback # None /\ code_callback # Callable
             THEN Raise(r, "ValueError:code_callback")
             ELSE IF phone = None /\ bot_token = None
             THEN Raise(r, "ValueError:no_phone_or_token")
             ELSE IF phone # None /\ bot_token # None /\ phone # Callable
             THEN Raise(r, "ValueError:phone_and_token")
             ELSE [r EXCEPT !.pc = "start_entry", !.phone = phone,
                            !.password = password, !.bot_token = bot_token,
                            !.force_sms = force_sms,
                            !.max_attempts = max_attempts]]
    /\ UNCHANGED <<client, hashSeq, issued>>

\* start_entry without the test of is_user_authorized (lines 124-125).
start_entry_no_authorized_test(p) ==
    /\ inv[p].pc = "start_entry"
    /\ connected' = TRUE
    /\ LET r == inv[p]
       IN  Step(p, IF r.bot_token = None /\ r.phone = Callable
                   THEN Keep([r EXCEPT !.pc = "phone_callback"])
                   ELSE start_resolved(r))
    /\ NoLogin
    /\ UNCHANGED <<state_cache, phone_code_hash, tos, session, hashSeq, issued>>

\* Lines 121-149: connect, the test of is_user_authorized, and the way to
\* the phone source, the bot sign-in or the code request.
start_entry(p) ==
    /\ inv[p].pc = "start_entry"
    /\ connected' = TRUE
    /\ LET r == inv[p]
       IN  Step(p, IF authorized
                   THEN Keep(Return([r EXCEPT !.path = "authorized"], "self"))
                   ELSE IF r.bot_token = None /\ r.phone = Callable
                   THEN Keep([r EXCEPT !.pc = "phone_callback"])
                   ELSE start_resolved(r))
    /\ NoLogin
    /\ UNCHANGED <<state_cache, phone_code_hash, tos, session, hashSeq, issued>>

\* phone_callback as if a value that is no phone and no bot token ended
\* start with an error.
phone_callback_gives_up(p, value) ==
    /\ inv[p].pc = "phone_callback"
    /\ LET r == [inv[p] EXCEPT !.phone_asks = IF @ <= MaxPhoneAsks
                                              THEN @ + 1 ELSE @,
                               !.value = value]
       IN  Step(p, IF value = BotToken
                   THEN start_resolved([r EXCEPT !.bot_token = value])
                   ELSE IF Or(parse_phone(value), r.phone) = Callable
                   THEN Keep(Raise(r, "ValueError:phone"))
                   ELSE start_resolved(
                          [r EXCEPT !.phone = Or(parse_phone(value), r.phone)]))
    /\ NoLogin
    /\ UNCHANGED <<state_cache, phone_code_hash, tos, connected, session,
                   hashSeq, issued>>

\* Lines 129-139: one turn of the loop over the callable phone source.  A
\* value that is no phone and no bot token leaves phone callable, and the
\* loop asks again.
phone_callback(p, value) ==
    /\ inv[p].pc = "phone_callback"
    /\ LET r == [inv[p] EXCEPT !.phone_asks = IF @ <= MaxPhoneAsks
                                              THEN @ + 1 ELSE @,
                               !.value = value]
       IN  Step(p, IF value = BotToken
                   THEN start_resolved([r EXCEPT !.bot_token = value])
                   ELSE IF Or(parse_phone(value), r.phone) = Callable
                   THEN Keep(r)
                   ELSE start_resolved(
                          [r EXCEPT !.phone = Or(parse_phone(value), r.phone)]))
    /\ NoLogin
    /\ UNCHANGED <<state_cache, phone_code_hash, tos, connected, session,
                   hashSeq, issued>>

\* code_callback without the test of lines 160-161 for an empty code.
code_callback_no_empty_test(p, value) ==
    /\ inv[p].pc = "code_callback"
    /\ LET r == [inv[p] EXCEPT !.code_asks = @ + 1, !.value = value]
       IN  Step(p, IF r.sign_up
                   THEN Keep(sign_up(r, None))
                   ELSE sign_in(r, r.phone, value, "", None))
    /\ NoLogin
    /\ UNCHANGED <<state_cache, phone_code_hash, tos, connected, session,
                   hashSeq, issued>>

\* Lines 153-167: the code source is asked; an empty code raises
\* PhoneCodeEmptyError, any other goes to sign_up or sign_in.
code_callback(p, value) ==
    /\ inv[p].pc = "code_callback"
    /\ LET r == [inv[p] EXCEPT !.code_asks = @ + 1, !.value = value]
       IN  Step(p, IF value = ""
                   THEN code_error(r, "PhoneCodeEmptyError")
                   ELSE IF r.sign_up
                   THEN Keep(sign_up(r, None))
                   ELSE sign_in(r, r.phone, value, "", None))
    /\ NoLogin
    /\ UNCHANGED <<state_cache, phone_code_hash, tos, connected, session,
                   hashSeq, issued>>

\* Lines 287-288 and 305: the answer to SignIn.
sign_in_reply(p, out) ==
    /\ inv[p].pc = "sign_in"
    /\ IF out = "ok"
       THEN /\ Step(p, Keep(sign_in_return(inv[p], "User")))
            /\ Login(FALSE)
       ELSE /\ Step(p, IF inv[p].op = "start" THEN code_error(inv[p], out)
                       ELSE Keep(Raise(inv[p], out)))
            /\ NoLogin
    /\ UNCHANGED <<state_cache, phone_code_hash, tos, connected, session,
                   hashSeq, issued>>

\* sign_up_reply with the login committed before the terms of service are
\* accepted.
sign_up_reply_commits_first(p, out) ==
    /\ inv[p].pc = "sign_up"
    /\ IF out = "ok"
       THEN IF tos # None
            THEN /\ Step(p, Keep([Issue(inv[p], "AcceptTermsOfService", None, 0)
                                     EXCEPT !.pc = "accept_tos"]))
                 /\ Login(FALSE)
            ELSE /\ Step(p, Keep(sign_in_return(inv[p], "User")))
                 /\ Login(FALSE)
       ELSE /\ Step(p, IF inv[p].op = "start" THEN code_error(inv[p], out)
                       ELSE Keep(Raise(inv[p], out)))
            /\ NoLogin
    /\ UNCHANGED <<state_cache, phone_code_hash, tos, connected, session,
                   hashSeq, issued>>

\* Lines 354-366: the answer to SignUp; with terms of service cached the
\* AcceptTermsOfService request follows, else the login is committed.
sign_up_reply(p, out) ==
    /\ inv[p].pc = "sign_up"
    /\ IF out = "ok"
       THEN IF tos # None
            THEN /\ Step(p, Keep([Issue(inv[p], "AcceptTermsOfService", None, 0)
                                     EXCEPT !.pc = "accept_tos"]))
                 /\ NoLogin
            ELSE /\ Step(p, Keep(sign_in_return(inv[p], "User")))
                 /\ Login(FALSE)
       ELSE /\ Step(p, IF inv[p].op = "start" THEN code_error(inv[p], out)
                       ELSE Keep(Raise(inv[p], out)))
            /\ NoLogin
    /\ UNCHANGED <<state_cache, phone_code_hash, tos, connected, session,
                   hashSeq, issued>>

\* Lines 363-366: the answer to AcceptTermsOfService.
accept_tos_reply(p, out) ==
    /\ inv[p].pc = "accept_tos"
    /\ IF out = "ok"
       THEN /\ Step(p, Keep(sign_in_return(inv[p], "User")))
            /\ Login(FALSE)
       ELSE /\ Step(p, Keep(Raise(inv[p], out)))
            /\ NoLogin
    /\ UNCHANGED <<state_cache, phone_code_hash, tos, connected, session,
                   hashSeq, issued>>

\* Lines 199-203: the password source is asked and its value signed in with.
password_callback(p, value) ==
    /\ inv[p].pc = "password_callback"
    /\ LET r == [inv[p] EXCEPT !.password_asks = @ + 1, !.value = value]
       IN  Step(p, sign_in(r, r.phone, "", value, None))
    /\ NoLogin
    /\ UNCHANGED <<state_cache, phone_code_hash, tos, connected, session,
                   hashSeq, issued>>

\* Lines 290-293: the answer to GetPassword; CheckPassword follows.
get_password_reply(p) ==
    /\ inv[p].pc = "get_password"
    /\ Step(p, Keep([Issue(inv[p], "CheckPassword", None, 0)
                        EXCEPT !.pc = "check_password"]))
    /\ NoLogin
    /\ UNCHANGED <<state_cache, phone_code_hash, tos, connected, session,
                   hashSeq, issued>>

\* Lines 291-293 and 305: the answer to CheckPassword.
check_password_reply(p, out) ==
    /\ inv[p].pc = "check_password"
    /\ IF out = "ok"
       THEN /\ Step(p, Keep(sign_in_return(inv[p], "User")))
            /\ Login(FALSE)
       ELSE /\ Step(p, Keep(IF out = "PasswordHashInvalidError"
                            THEN password_failed(inv[p])
                            ELSE Raise(inv[p], out)))
            /\ NoLogin
    /\ UNCHANGED <<state_cache, phone_code_hash, tos, connected, session,
                   hashSeq, issued>>

\* Lines 295-298 and 305: the answer to ImportBotAuthorization.
import_bot_reply(p, out) ==
    /\ inv[p].pc = "import_bot"
    /\ IF out = "ok"
       THEN /\ Step(p, Keep(sign_in_return(inv[p], "User")))
            /\ Login(TRUE)
       ELSE /\ Step(p, Keep(Raise(inv[p], out)))
            /\ NoLogin
    /\ UNCHANGED <<state_cache, phone_code_hash, tos, connected, session,
                   hashSeq, issued>>

\* Lines 275-303, called by the user with a phone (or None) and a code (or
\* none): sign_in up to its first RPC.
call_sign_in(p, phone, code) ==
    /\ inv[p].pc = "idle"
    /\ connected
    /\ Step(p, sign_in([IdleInv EXCEPT !.op = "sign_in", !.phone = phone,
                                       !.value = code],
                       phone, code, "", None))
    /\ NoLogin
    /\ UNCHANGED <<state_cache, phone_code_hash, tos, connected, session,
                   hashSeq, issued>>

\* Lines 339-360, called by the user with a code and a phone (or None):
\* sign_up up to its SignUp RPC.
call_sign_up(p, phone) ==
    /\ inv[p].pc = "idle"
    /\ connected
    /\ Step(p, Keep(sign_up([IdleInv EXCEPT !.op = "sign_up",
                                            !.phone = phone,
                                            !.value = "12345"],
                            phone)))
    /\ NoLogin
    /\ UNCHANGED <<state_cache, phone_code_hash, tos, connected, session,
                   hashSeq, issued>>

\* ------------------------------------------------------ send_code_request
\* Lines 394-414, called by the user: the call up to its first RPC.
send_code_request(p, phone, force_sms) ==
    /\ inv[p].pc = "idle"
    /\ connected
    /\ Step(p, send_code_request_enter(
                 [IdleInv EXCEPT !.op = "send_code_request",
                                 !.phone = phone, !.force_sms = force_sms,
                                 !.entry_hash = HashGet(parse_phone(phone))],
                 phone, force_sms, "call"))
    /\ NoLogin
    /\ UNCHANGED <<state_cache, phone_code_hash, tos, connected, session,
                   hashSeq, issued>>

\* send_code_reply with force_sms not handed on to the call that follows an
\* AuthRestartError.
send_code_reply_restart_drops_force(p, out, registered, terms) ==
    /\ inv[p].pc = "send_code"
    /\ LET r == inv[p]
           phone == r.scr_phone
           h == hashSeq + 1
       IN  CASE out = "ok" ->
                   /\ hashSeq < MaxHash
                   /\ hashSeq' = h
                   /\ issued' = [issued EXCEPT ![h] = r.req.phone]
                   /\ tos' = terms
                   /\ phone_code_hash' = [phone_code_hash EXCEPT ![phone] = h]
                   /\ inv' = [inv EXCEPT ![p] =
                         IF r.scr_force
                         THEN [Issue(r, "ResendCode", phone, h)
                                  EXCEPT !.pc = "resend_code"]
                         ELSE send_code_request_return(r, registered, h)]
                   /\ self_phone' = phone
             [] out = "AuthRestartError" ->
                   /\ r.restarts < MaxRestarts
                   /\ Step(p, send_code_request_enter(
                                [r EXCEPT !.restarts = @ + 1],
                                phone, FALSE, r.scr_ret))
                   /\ UNCHANGED <<hashSeq, issued, tos, phone_code_hash>>
             [] OTHER ->
                   /\ Step(p, Keep(Raise(r, out)))
                   /\ UNCHANGED <<hashSeq, issued, tos, phone_code_hash>>
    /\ NoLogin
    /\ UNCHANGED <<state_cache, connected, session>>

\* Lines 399-414: the answer to SendCode.  AuthRestartError calls
\* send_code_request again; a result is cached (terms of service, hash,
\* phone) and, with force_sms, followed by ResendCode.
send_code_reply(p, out, registered, terms) ==
    /\ inv[p].pc = "send_code"
    /\ LET r == inv[p]
           phone == r.scr_phone
           h == hashSeq + 1
       IN  CASE out = "ok" ->
                   /\ hashSeq < MaxHash
                   /\ hashSeq' = h
                   /\ issued' = [issued EXCEPT ![h] = r.req.phone]
                   /\ tos' = terms
                   /\ phone_code_hash' = [phone_code_hash EXCEPT ![phone] = h]
                   /\ inv' = [inv EXCEPT ![p] =
                         IF r.scr_force
                         THEN [Issue(r, "ResendCode", phone, h)
                                  EXCEPT !.pc = "resend_code"]
                         ELSE send_code_request_return(r, registered, h)]
                   /\ self_phone' = phone
             [] out = "AuthRestartError" ->
                   /\ r.restarts < MaxRestarts
                   /\ Step(p, send_code_request_enter(
                                [r EXCEPT !.restarts = @ + 1],
                                phone, r.scr_force, r.scr_ret))
                   /\ UNCHANGED <<hashSeq, issued, tos, phone_code_hash>>
             [] OTHER ->
                   /\ Step(p, Keep(Raise(r, out)))
                   /\ UNCHANGED <<hashSeq, issued, tos, phone_code_hash>>
    /\ NoLogin
    /\ UNCHANGED <<state_cache, connected, session>>

\* Lines 413-418: the answer to ResendCode; its hash replaces the cached one.
resend_code_reply(p, out, registered) ==
    /\ inv[p].pc = "resend_code"
    /\ LET r == inv[p]
           h == hashSeq + 1
       IN  IF out = "ok"
           THEN /\ hashSeq < MaxHash
                /\ hashSeq' = h
                /\ issued' = [issued EXCEPT ![h] = r.req.phone]
                /\ phone_code_hash' =
                      [phone_code_hash EXCEPT ![r.scr_phone] = h]
                /\ Step(p, Keep(send_code_request_return(r, registered, h)))
           ELSE /\ Step(p, Keep(Raise(r, out)))
                /\ UNCHANGED <<hashSeq, issued, phone_code_hash>>
    /\ NoLogin
    /\ UNCHANGED <<state_cache, tos, connected, session>>

\* ---------------------------------------------------------------- log_out
\* Lines 427-428: log_out sends LogOut.
log_out(p) ==
    /\ inv[p].pc = "idle"
    /\ connected
    /\ inv' = [inv EXCEPT ![p] =
          [Issue([IdleInv EXCEPT !.op = "log_out"], "LogOut", None, 0)
              EXCEPT !.pc = "log_out"]]
    /\ UNCHANGED <<client, hashSeq, issued>>

\* The local teardown of lines 432-438.
log_out_clear ==
    /\ bot' = None
    /\ self_input_peer' = None
    /\ authorized' = FALSE
    /\ state_cache' = "empty"
    /\ connected' = FALSE
    /\ session' = "deleted"

\* log_out_reply with the teardown done before the answer is looked at.
log_out_reply_clears_first(p, out) ==
    /\ inv[p].pc = "log_out"
    /\ log_out_clear
    /\ inv' = [inv EXCEPT ![p] =
          IF out = "ok" THEN Return(inv[p], "True")
          ELSE Return([inv[p] EXCEPT !.caught = "RPCError"], "False")]
    /\ UNCHANGED <<self_phone, phone_code_hash, tos, hashSeq, issued>>

\* log_out_reply with the active phone and the hash cache cleared as well.
log_out_reply_forgets_codes(p, out) ==
    /\ inv[p].pc = "log_out"
    /\ IF out = "ok"
       THEN /\ log_out_clear
            /\ self_phone' = None
            /\ phone_code_hash' = [ph \in Phones |-> 0]
            /\ inv' = [inv EXCEPT ![p] = Return(inv[p], "True")]
       ELSE /\ inv' = [inv EXCEPT ![p] =
                  Return([inv[p] EXCEPT !.caught = "RPCError"], "False")]
            /\ UNCHANGED <<bot, self_input_peer, authorized, state_cache,
                           connected, session, self_phone, phone_code_hash>>
    /\ UNCHANGED <<tos, hashSeq, issued>>

\* Lines 429-439: the answer to LogOut.  An RPCError returns False; else the
\* local state is cleared, the client disconnected and the session deleted.
log_out_reply(p, out) ==
    /\ inv[p].pc = "log_out"
    /\ IF out = "ok"
       THEN /\ log_out_clear
            /\ inv' = [inv EXCEPT ![p] = Return(inv[p], "True")]
       ELSE /\ inv' = [inv EXCEPT ![p] =
                  Return([inv[p] EXCEPT !.caught = "RPCError"], "False")]
            /\ UNCHANGED <<bot, self_input_peer, authorized, state_cache,
                           connected, session>>
    /\ UNCHANGED <<self_phone, phone_code_hash, tos, hashSeq, issued>>

\* --------------------------------------------------------------- edit_2fa
\* edit_2fa with the test of the email made before the test of the
\* passwords.
edit_2fa_email_first(p, current_password, new_password, email, email_code_callback) ==
    /\ inv[p].pc = "idle"
    /\ connected
    /\ LET r == [IdleInv EXCEPT !.op = "edit_2fa",
                                !.password = current_password,
                                !.new_password = new_password,
                                !.email = email,
                                !.email_code_callback = email_code_callback]
       IN  inv' = [inv EXCEPT ![p] =
             IF email # None /\ email_code_callback # Callable
             THEN Raise(r, "ValueError:email")
             ELSE IF new_password = None /\ current_password = None
             THEN Return(r, "False")
             ELSE [Issue(r, "GetPassword", None, 0)
                      EXCEPT !.pc = "edit_get_password"]]
    /\ UNCHANGED <<client, hashSeq, issued>>

\* Lines 486-492: nothing to do without a password; an email needs a
\* callable email_code_callback; else GetPassword goes out.
edit_2fa(p, current_password, new_password, email, email_code_callback) ==
    /\ inv[p].pc = "idle"
    /\ connected
    /\ LET r == [IdleInv EXCEPT !.op = "edit_2fa",
                                !.password = current_password,
                                !.new_password = new_password,
                                !.email = email,
                                !.email_code_callback = email_code_callback]
       IN  inv' = [inv EXCEPT ![p] =
             IF new_password = None /\ current_password = None
             THEN Return(r, "False")
             ELSE IF email # None /\ email_code_callback # Callable
             THEN Raise(r, "ValueError:email")
             ELSE [Issue(r, "GetPassword", None, 0)
                      EXCEPT !.pc = "edit_get_password"]]
    /\ UNCHANGED <<client, hashSeq, issued>>

\* Lines 492-519: the answer to GetPassword.  A current password is dropped
\* when the account has none, and UpdatePasswordSettings goes out.
edit_get_password_reply(p, out, has_password) ==
    /\ inv[p].pc = "edit_get_password"
    /\ LET r == inv[p]
       IN  inv' = [inv EXCEPT ![p] =
             IF out # "ok" THEN Raise(r, out)
             ELSE [Issue([r EXCEPT !.password =
                                     IF has_password THEN @ ELSE None],
                         "UpdatePasswordSettings", None, 0)
                      EXCEPT !.pc = "edit_update"]]
    /\ UNCHANGED <<client, hashSeq, issued>>

\* edit_update_reply with the email code asked for, and confirmed, after a
\* successful update too.
edit_update_reply_always_confirms(p, out, code_length) ==
    /\ inv[p].pc = "edit_update"
    /\ out = "EmailUnconfirmedError" => inv[p].email # None
    /\ LET r == inv[p]
       IN  inv' = [inv EXCEPT ![p] =
             IF out = "ok" /\ r.email_code_callback = Callable
             THEN [r EXCEPT !.pc = "email_code_callback",
                            !.code_length = code_length,
                            !.cb_arg = code_length]
             ELSE IF out = "ok" THEN Return(r, "True")
             ELSE IF out = "EmailUnconfirmedError"
             THEN IF r.email_code_callback = Callable
                  THEN [r EXCEPT !.pc = "email_code_callback", !.caught = out,
                                 !.code_length = code_length,
                                 !.cb_arg = code_length]
                  ELSE Raise([r EXCEPT !.caught = out], "TypeError")
             ELSE Raise(r, out)]
    /\ UNCHANGED <<client, hashSeq, issued>>

\* Lines 520-528: the answer to UpdatePasswordSettings.  The remote answers
\* EmailUnconfirmedError, with the length of the code it mailed, only about
\* an email that the request named; the email code source is then called
\* with that length (cb_arg).
edit_update_reply(p, out, code_length) ==
    /\ inv[p].pc = "edit_update"
    /\ out = "EmailUnconfirmedError" => inv[p].email # None
    /\ LET r == inv[p]
       IN  inv' = [inv EXCEPT ![p] =
             IF out = "ok" THEN Return(r, "True")
             ELSE IF out = "EmailUnconfirmedError"
             THEN IF r.email_code_callback = Callable
                  THEN [r EXCEPT !.pc = "email_code_callback", !.caught = out,
                                 !.code_length = code_length,
                                 !.cb_arg = code_length]
                  ELSE Raise([r EXCEPT !.caught = out], "TypeError")
             ELSE Raise(r, out)]
    /\ UNCHANGED <<client, hashSeq, issued>>

\* Lines 521-526: the email code source answers; ConfirmPasswordEmail goes
\* out with str(code).
email_code_callback_reply(p) ==
    /\ inv[p].pc = "email_code_callback"
    /\ inv' = [inv EXCEPT ![p] =
          [Issue(inv[p], "ConfirmPasswordEmail", None, 0)
              EXCEPT !.pc = "edit_confirm"]]
    /\ UNCHANGED <<client, hashSeq, issued>>

\* Lines 526-528: the answer to ConfirmPasswordEmail.
edit_confirm_reply(p, out) ==
    /\ inv[p].pc = "edit_confirm"
    /\ inv' = [inv EXCEPT ![p] =
          IF out = "ok" THEN Return(inv[p], "True") ELSE Raise(inv[p], out)]
    /\ UNCHANGED <<client, hashSeq, issued>>

\* ---------------------------------------------------------- the caller
\* The caller connects the client (TelegramClient.connect).
connect ==
    /\ ~connected
    /\ \A p \in Procs : inv[p].pc = "idle"
    /\ connected' = TRUE
    /\ UNCHANGED <<authorized, bot, self_input_peer, state_cache, self_phone,
                   phone_code_hash, tos, session, hashSeq, issued, inv>>

\* The caller has the result or the exception of a call.
finish(p) ==
    /\ inv[p].pc \in {"returned", "raised"}
    /\ inv' = [inv EXCEPT ![p] = IdleInv]
    /\ UNCHANGED <<client, hashSeq, issued>>

\* Arguments a caller gives to start; with a bot token the other arguments
\* keep their defaults.
StartPhones == {None, Callable, "+1"}
Passwords == {None, "pw", Callable}
CodeCallbacks == {None, Callable, "12345"}

\* The operations of invocation p.
Run(p) ==
    \/ \E phone \in StartPhones, password \in Passwords,
          cb \in CodeCallbacks, force_sms \in BOOLEAN,
          max_attempts \in 0..MaxAttempts :
          start(p, phone, password, None, cb, force_sms, max_attempts)
    \/ \E phone \in StartPhones :
          start(p, phone, Callable, BotToken, None, FALSE, MaxAttempts)
    \/ start_entry(p)
    \/ \E value \in PhoneAnswers : phone_callback(p, value)
    \/ \E value \in CodeAnswers : code_callback(p, value)
    \/ \E out \in SignOutcomes : sign_in_reply(p, out)
    \/ \E out \in SignOutcomes : sign_up_reply(p, out)
    \/ \E out \in {"ok", "FloodWaitError"} : accept_tos_reply(p, out)
    \/ \E value \in PasswordAnswers : password_callback(p, value)
    \/ get_password_reply(p)
    \/ \E out \in {"ok", "PasswordHashInvalidError", "FloodWaitError"} :
          check_password_reply(p, out)
    \/ \E out \in {"ok", "FloodWaitError"} : import_bot_reply(p, out)
    \/ \E phone \in RawPhones \cup {None}, code \in CodeAnswers :
          call_sign_in(p, phone, code)
    \/ \E phone \in RawPhones \cup {None} : call_sign_up(p, phone)
    \/ \E phone \in RawPhones, force_sms \in BOOLEAN :
          send_code_request(p, phone, force_sms)
    \/ \E out \in {"ok", "AuthRestartError", "FloodWaitError"},
          registered \in BOOLEAN, terms \in {None, "tos"} :
          send_code_reply(p, out, registered, terms)
    \/ \E out \in {"ok", "FloodWaitError"}, registered \in BOOLEAN :
          resend_code_reply(p, out, registered)
    \/ log_out(p)
    \/ \E out \in {"ok", "RPCError"} : log_out_reply(p, out)
    \/ \E current_password \in {None, "pw"}, new_password \in {None, "pw"},
          email \in {None, "e@x"}, cb \in {None, Callable} :
          edit_2fa(p, current_password, new_password, email, cb)
    \/ \E out \in {"ok", "FloodWaitError"}, has_password \in BOOLEAN :
          edit_get_password_reply(p, out, has_password)
    \/ \E out \in {"ok", "EmailUnconfirmedError", "FloodWaitError"},
          code_length \in CodeLengths :
          edit_update_reply(p, out, code_length)
    \/ email_code_callback_reply(p)
    \/ \E out \in {"ok", "CodeInvalidError"} : edit_confirm_reply(p, out)
    \/ finish(p)

\* One call at a time, as the design asks of the caller: every operation
\* runs as invocation 1.
Next == connect \/ Run(1)

Spec == Init /\ [][Next]_vars

\* Two start calls for different phones, interleaved on the one client at
\* their suspension points; each invocation runs once.
RacePhone(p) == IF p = 1 THEN "+1" ELSE "2"

RaceRun(p) ==
    \/ start(p, RacePhone(p), None, None, None, FALSE, MaxAttempts)
    \/ start_entry(p)
    \/ \E registered \in BOOLEAN : send_code_reply(p, "ok", registered, None)
    \/ code_callback(p, "12345")
    \/ \E out \in {"ok", "PhoneCodeInvalidError"} : sign_in_reply(p, out)
    \/ \E out \in {"ok", "PhoneNumberOccupiedError"} : sign_up_reply(p, out)

NextRace == RaceRun(1) \/ RaceRun(2)

SpecRace == Init /\ [][NextRace]_vars

\* An invocation that waits for the answer to an RPC or for the value of a
\* callback is resumed.
Awaited(p) == inv[p].pc \notin {"idle", "returned", "raised"} /\ Run(p)

\* Every RPC is answered and every callback returns: a waiting invocation
\* is resumed at last.
SpecFair == Spec /\ WF_vars(Awaited(1))

\* =================================================================== claims
\* The RPCs an invocation has sent.
TotalRpcs(r) ==
    r.rpcs["SendCode"] + r.rpcs["ResendCode"] + r.rpcs["SignIn"]
    + r.rpcs["SignUp"] + r.rpcs["ImportBotAuthorization"]
    + r.rpcs["GetPassword"] + r.rpcs["CheckPassword"]
    + r.rpcs["AcceptTermsOfService"] + r.rpcs["LogOut"]
    + r.rpcs["UpdatePasswordSettings"] + r.rpcs["ConfirmPasswordEmail"]

\* The code submissions (SignIn and SignUp RPCs) of an invocation.
Submissions(r) == r.rpcs["SignIn"] + r.rpcs["SignUp"]

\* A start invocation that has its SentCode, that is, has reached the code
\* loop of lines 151-187.
InCodePhase(r) == r.op = "start" /\ r.sent_code # None

\* C1: in start's code phase with max_attempts = N, the attempt counter
\* never exceeds N; the flow has ended with the fatal RuntimeError
\* ('N consecutive sign-in attempts failed') exactly when N attempts have
\* failed; at that point the code source has been asked N times and at most
\* N SignIn/SignUp RPCs were sent, so nothing follows the N-th failure; and
\* a start that returns from the code loop has failed fewer than N times
\* and is logged in.
C1_AttemptBudget ==
    \A p \in Procs :
        LET r == inv[p]
            N == r.max_attempts
        IN  InCodePhase(r) =>
              /\ r.attempts <= N
              /\ r.attempts = N <=> (r.pc = "raised" /\ r.err = "RuntimeError")
              /\ r.code_asks <= N
              /\ Submissions(r) <= r.code_asks
              /\ r.code_asks \in {r.attempts, r.attempts + 1}
              /\ r.attempts = N => r.code_asks = N
              /\ (r.pc = "returned" /\ ~r.two_step_detected)
                    => r.attempts < N /\ r.me = "User" /\ authorized

\* C1 witness: N = MaxAttempts attempts failed, the last one a code the
\* remote rejected, and start raised the fatal error.
C1_Witness_Exhausted ==
    \E p \in Procs :
        /\ InCodePhase(inv[p]) /\ inv[p].max_attempts >= 2
        /\ inv[p].attempts = inv[p].max_attempts
        /\ inv[p].err = "RuntimeError"
        /\ inv[p].value = "12345" /\ Submissions(inv[p]) >= 1

\* C2 (as claimed): whenever start has returned, the session is authorized.
C2_ReturnedImpliesAuthorized ==
    \A p \in Procs :
        (inv[p].op = "start" /\ inv[p].pc = "returned") => authorized

\* C3 (as claimed): once start has entered its code loop, no SendCode or
\* ResendCode RPC is sent any more: no retry of the code loop or of the
\* password loop waits for the answer to one.
C3_NoCodeRequestInLoops ==
    \A p \in Procs :
        InCodePhase(inv[p]) => inv[p].pc \notin {"send_code", "resend_code"}

\* The positions of a start invocation inside the code loop.
CodeLoopPcs == {"code_callback", "sign_in", "sign_up", "accept_tos"}

\* C4: a password-required answer to a code submission consumes no attempt
\* (the submission stays the one uncounted request: code_asks is one ahead
\* of attempts, which stays below max_attempts), the code loop is left for
\* good, and the password loop has max_attempts tries of its own whatever
\* attempts is: a callable password source is asked at most max_attempts
\* times and the loop gives up only after max_attempts rejected passwords.
C4_PasswordRequiredKeepsBudget ==
    \A p \in Procs :
        LET r == inv[p]
            N == r.max_attempts
        IN  (r.op = "start" /\ r.two_step_detected) =>
              /\ r.attempts < N
              /\ r.code_asks = r.attempts + 1
              /\ Submissions(r) >= 1
              /\ r.pc \notin CodeLoopPcs
              /\ r.err # "RuntimeError"
              /\ r.password = Callable =>
                    /\ r.tries <= N
                    /\ r.password_asks <= N
                    /\ r.password_asks \in {r.tries, r.tries + 1}
                    /\ r.tries = N
                          <=> (r.pc = "raised"
                               /\ r.err = "PasswordHashInvalidError")

\* C4 witness: the password loop used up all of its max_attempts tries
\* after the code loop had already consumed attempts.
C4_Witness_FullPasswordBudget ==
    \E p \in Procs :
        /\ inv[p].op = "start" /\ inv[p].two_step_detected
        /\ inv[p].attempts >= 1
        /\ inv[p].password = Callable
        /\ inv[p].tries = inv[p].max_attempts
        /\ inv[p].rpcs["CheckPassword"] = inv[p].max_attempts

\* C5: an empty code is rejected locally.  In the step in which the code
\* source answers "", no RPC is sent, the rejection is reported, one attempt
\* is consumed, and the loop asks again while attempts < max_attempts (and
\* else ends with the fatal error).
C5_EmptyCodeRejectedLocally ==
    [][\A p \in Procs :
          (inv[p].pc = "code_callback" /\ inv'[p].op = "start"
           /\ inv'[p].code_asks = inv[p].code_asks + 1
           /\ inv'[p].value = "")
          => /\ inv'[p].rpcs = inv[p].rpcs
             /\ inv'[p].req = inv[p].req
             /\ inv'[p].reports = inv[p].reports + 1
             /\ inv'[p].caught = "CodeError"
             /\ inv'[p].attempts = inv[p].attempts + 1
             /\ inv'[p].sign_up = inv[p].sign_up
             /\ IF inv'[p].attempts < inv'[p].max_attempts
                THEN inv'[p].pc = "code_callback"
                ELSE inv'[p].pc = "raised" /\ inv'[p].err = "RuntimeError"
             /\ UNCHANGED client]_vars

\* C5 witness: the code source answered "" and the loop asks again.
C5_Witness_EmptyThenAsk ==
    \E p \in Procs :
        /\ InCodePhase(inv[p]) /\ inv[p].pc = "code_callback"
        /\ inv[p].value = "" /\ inv[p].attempts = 1
        /\ Submissions(inv[p]) = 0

\* C6, the state part: SignUp is sent only with sign_up set and SignIn only
\* with it clear; before any error is caught sign_up is the negation of the
\* phone_registered the code request reported; after an occupied answer the
\* flag is clear and after an unoccupied answer it is set.
C6_FlagState ==
    \A p \in Procs :
        LET r == inv[p]
        IN  (InCodePhase(r) /\ ~r.two_step_detected) =>
              /\ r.pc \in {"sign_up", "accept_tos"}
                    => r.sign_up /\ r.req.kind \in {"SignUp", "AcceptTermsOfService"}
              /\ r.pc = "sign_in" => ~r.sign_up /\ r.req.kind = "SignIn"
              /\ r.caught = None => (r.sign_up <=> r.sent_code = "Unregistered")
              /\ r.caught = "PhoneNumberOccupiedError" => ~r.sign_up
              /\ r.caught = "PhoneNumberUnoccupiedError" => r.sign_up

\* C6, the step part: a step that catches an occupancy error consumes one
\* attempt, sends no RPC and reports nothing; and sign_up changes in no
\* other step of the code loop.
C6_FlagStep ==
    \A p \in Procs :
        LET r == inv[p]
            r2 == inv'[p]
        IN  (InCodePhase(r) /\ InCodePhase(r2)) =>
              /\ (r2.attempts # r.attempts
                  /\ r2.caught \in {"PhoneNumberOccupiedError",
                                    "PhoneNumberUnoccupiedError"})
                    => /\ r.pc \in {"sign_in", "sign_up"}
                       /\ r2.attempts = r.attempts + 1
                       /\ r2.rpcs = r.rpcs
                       /\ r2.reports = r.reports
                       /\ r2.sign_up <=> r2.caught = "PhoneNumberUnoccupiedError"
              /\ r2.sign_up # r.sign_up
                    => /\ r2.attempts = r.attempts + 1
                       /\ r2.caught \in {"PhoneNumberOccupiedError",
                                         "PhoneNumberUnoccupiedError"}

\* C6: in start's phone path the RPC of each code submission follows the
\* sign-up flag: SignUp first when the code request reported the phone as
\* not registered, SignIn after an occupied answer, SignUp after an
\* unoccupied one; each flip consumes one attempt, sends no second RPC in
\* its iteration, and nothing else changes the flag.
C6_SubmissionFollowsFlag == [](C6_FlagState) /\ [][C6_FlagStep]_vars

\* C6 witness: SignUp was answered occupied and the next submission is a
\* SignIn.
C6_Witness_FlippedToSignIn ==
    \E p \in Procs :
        /\ InCodePhase(inv[p]) /\ inv[p].sent_code = "Unregistered"
        /\ inv[p].caught = "PhoneNumberOccupiedError"
        /\ inv[p].pc = "sign_in" /\ inv[p].attempts = 1
        /\ inv[p].rpcs["SignUp"] = 1 /\ inv[p].rpcs["SignIn"] = 1

\* C7 (as claimed): for every form of password source the flow fails with
\* the invalid-password error only once max_attempts CheckPassword
\* submissions were rejected, and sends at most max_attempts of them.
C7_EverySourceRetries ==
    \A p \in Procs :
        LET r == inv[p]
        IN  (r.op = "start" /\ r.two_step_detected) =>
              /\ r.rpcs["CheckPassword"] <= r.max_attempts
              /\ r.err = "PasswordHashInvalidError"
                    => r.rpcs["CheckPassword"] = r.max_attempts

\* C7 (amended): with a callable password source every invalid-password
\* answer consumes one try, at most max_attempts CheckPassword RPCs are
\* sent, and the flow fails with the invalid-password error exactly when
\* max_attempts submissions were rejected; a fixed password is submitted
\* once, outside the loop, and its rejection is fatal at once.
C7_CallableSourceRetries ==
    \A p \in Procs :
        LET r == inv[p]
            N == r.max_attempts
            sent == r.rpcs["CheckPassword"]
        IN  (r.op = "start" /\ r.two_step_detected) =>
              /\ r.password = Callable =>
                    /\ r.tries <= N /\ sent <= N
                    /\ sent \in {r.tries, r.tries + 1}
                    /\ r.err = "PasswordHashInvalidError" <=> r.tries = N
                    /\ r.err = "PasswordHashInvalidError" => sent = N
              /\ r.password = "pw" =>
                    /\ r.tries = 0 /\ r.password_asks = 0 /\ sent <= 1
                    /\ r.err = "PasswordHashInvalidError"
                          => sent = 1 /\ r.pc = "raised"

\* C7 witness: a fixed password was rejected and start failed after its
\* single CheckPassword, with max_attempts = 2.
C7_Witness_FixedPasswordFails ==
    \E p \in Procs :
        /\ inv[p].op = "start" /\ inv[p].two_step_detected
        /\ inv[p].password = "pw" /\ inv[p].max_attempts = 2
        /\ inv[p].err = "PasswordHashInvalidError"
        /\ inv[p].rpcs["CheckPassword"] = 1

\* The validation errors of start and edit_2fa.
EntryValidationErrors ==
    {"ValueError:code_callback", "ValueError:no_phone_or_token",
     "ValueError:phone_and_token", "ValueError:email"}

\* C8 (as claimed): when a validation error is raised, the invocation has
\* sent no RPC.
C8_ValidationBeforeAnyRpc ==
    \A p \in Procs :
        (inv[p].pc = "raised"
         /\ inv[p].err \in EntryValidationErrors \cup {"ValueError:password"})
        => TotalRpcs(inv[p]) = 0

\* C8 (amended): the validation errors of the arguments (no phone and no bot
\* token, a fixed phone with a bot token, a code_callback that is not
\* callable, an email without a callable email_code_callback) are raised
\* with no RPC sent; the missing password is found only when a code
\* submission was answered password-required, so SendCode or ResendCode and a
\* SignIn or SignUp have been sent by then, but no GetPassword and no
\* CheckPassword.
C8_ValidationOrder ==
    \A p \in Procs :
        LET r == inv[p]
        IN  r.pc = "raised" =>
              /\ r.err \in EntryValidationErrors => TotalRpcs(r) = 0
              /\ r.err = "ValueError:password" =>
                    /\ r.rpcs["GetPassword"] = 0
                    /\ r.rpcs["CheckPassword"] = 0
                    /\ r.rpcs["SendCode"] + r.rpcs["ResendCode"] >= 1
                    /\ Submissions(r) >= 1
                    /\ TotalRpcs(r) = r.rpcs["SendCode"] + r.rpcs["ResendCode"]
                                      + Submissions(r)

\* C8 witness: start raised the missing-password error after its SendCode
\* and its SignIn.
C8_Witness_MissingPassword ==
    \E p \in Procs :
        /\ inv[p].pc = "raised" /\ inv[p].err = "ValueError:password"
        /\ inv[p].rpcs["SendCode"] = 1 /\ inv[p].rpcs["SignIn"] = 1

\* C9: a send_code_request(phone, force_sms=False) that has returned.  With
\* no hash cached for the phone when it was called, it sent SendCode (once,
\* and once more for each restart answer) and no ResendCode, and the cache
\* holds the hash of its result; with a hash cached, it sent exactly one
\* ResendCode carrying that hash and no SendCode, and the cache holds the
\* hash the resend returned in place of the old one.
C9_SendThenResend ==
    \A p \in Procs :
        LET r == inv[p]
            ph == parse_phone(r.phone)
        IN  (r.op = "send_code_request" /\ r.pc = "returned" /\ ~r.force_sms)
            => /\ ph \in Phones /\ self_phone = ph
               /\ r.result_hash # 0
               /\ phone_code_hash[ph] = r.result_hash
               /\ TotalRpcs(r) = r.rpcs["SendCode"] + r.rpcs["ResendCode"]
               /\ IF r.entry_hash = 0
                  THEN /\ r.rpcs["SendCode"] = 1 + r.restarts
                       /\ r.rpcs["ResendCode"] = 0
                       /\ r.req = [kind |-> "SendCode", phone |-> ph,
                                   hash |-> 0]
                  ELSE /\ r.rpcs["SendCode"] = 0
                       /\ r.rpcs["ResendCode"] = 1
                       /\ r.req = [kind |-> "ResendCode", phone |-> ph,
                                   hash |-> r.entry_hash]
                       /\ r.result_hash # r.entry_hash

\* C9 witness: the second call for the phone has returned: the hash the
\* first call cached went out with one ResendCode.
C9_Witness_SecondCallResent ==
    \E p \in Procs :
        /\ inv[p].op = "send_code_request" /\ inv[p].pc = "returned"
        /\ ~inv[p].force_sms
        /\ inv[p].entry_hash = 1 /\ inv[p].result_hash = 2
        /\ inv[p].rpcs["ResendCode"] = 1

\* C10, the step part: the step in which log_out catches the RPCError
\* returns False and changes no field of the client.
C10_FailedLogOutStep ==
    \A p \in Procs :
        (inv[p].pc = "log_out" /\ inv'[p].caught = "RPCError")
        => /\ inv'[p].pc = "returned" /\ inv'[p].result = "False"
           /\ UNCHANGED <<authorized, bot, self_input_peer, state_cache,
                          self_phone, phone_code_hash, tos, connected,
                          session>>

\* C10, the state part: log_out never raises, and it has returned False
\* exactly when it caught an RPCError.
C10_FailedLogOutState ==
    \A p \in Procs :
        inv[p].op = "log_out" =>
           /\ inv[p].pc # "raised"
           /\ inv[p].pc = "returned" =>
                 (inv[p].result = "False" <=> inv[p].caught = "RPCError")
           /\ inv[p].result = "False" => inv[p].pc = "returned"

\* C10: when the LogOut RPC fails with an RPC error, log_out returns False,
\* no exception escapes, and the bot flag, the self-peer reference, the
\* authorized flag, the update state, the cached phone and hashes, the
\* connection and the persisted session are all as they were.
C10_FailedLogOutChangesNothing ==
    [](C10_FailedLogOutState) /\ [][C10_FailedLogOutStep]_vars

\* C10 witness: log_out returned False on a client that is logged in, has a
\* phone and a hash cached, and still has its session.
C10_Witness_FailedLogOut ==
    \E p \in Procs :
        /\ inv[p].op = "log_out" /\ inv[p].pc = "returned"
        /\ inv[p].result = "False"
        /\ authorized /\ bot = "False" /\ self_input_peer = "peer"
        /\ self_phone = "1" /\ phone_code_hash["1"] # 0
        /\ state_cache = "loaded" /\ connected /\ session = "saved"

C13_BotPathOneRpc ==
    \A p \in Procs :
        LET r == inv[p]
        IN  r.op = "start" =>
              /\ (r.bot_token # None /\ r.pc # "start_entry")
                    => r.path \in {"bot", "authorized"}
              /\ r.value = BotToken => r.path = "bot" /\ r.bot_token = BotToken
              /\ r.path = "bot" =>
                    /\ r.bot_token # None
                    /\ r.rpcs["ImportBotAuthorization"] = 1
                    /\ TotalRpcs(r) = 1
                    /\ r.code_asks = 0 /\ r.password_asks = 0
                    /\ r.pc \in {"import_bot", "returned", "raised"}
                    /\ r.pc = "returned" =>
                          r.result = "self" /\ authorized /\ bot = "True"
                    /\ r.pc = "raised" => r.err = "FloodWaitError"

\* C13 witness: the phone source answered a bot token, the one
\* ImportBotAuthorization RPC failed, and start raised its error.
C13_Witness_BotRpcFailed ==
    \E p \in Procs :
        /\ inv[p].op = "start" /\ inv[p].path = "bot"
        /\ inv[p].value = BotToken /\ inv[p].phone_asks >= 1
        /\ inv[p].pc = "raised" /\ inv[p].err = "FloodWaitError"
        /\ inv[p].rpcs["ImportBotAuthorization"] = 1

\* C19, the step part: when _start finds the session authorized it returns
\* the client in that step: no source is asked, no RPC is sent, and the hash
\* cache, the active phone, the authorized flag, the bot flag, the self
\* peer and the terms of service are as they were.
C19_AuthorizedStep ==
    \A p \in Procs :
        (inv[p].pc = "start_entry" /\ authorized)
        => /\ inv'[p].pc = "returned" /\ inv'[p].result = "self"
           /\ inv'[p].path = "authorized"
           /\ TotalRpcs(inv'[p]) = 0
           /\ inv'[p].phone_asks = 0 /\ inv'[p].code_asks = 0
           /\ inv'[p].password_asks = 0
           /\ UNCHANGED <<phone_code_hash, self_phone, authorized, bot,
                          self_input_peer, tos, hashSeq>>

\* C19, the state part: a start that took the authorized exit has returned
\* the client, the session is authorized, and the invocation has asked no
\* source and sent no RPC.
C19_AuthorizedState ==
    \A p \in Procs :
        inv[p].path = "authorized" =>
           /\ inv[p].op = "start" /\ inv[p].pc = "returned"
           /\ inv[p].result = "self" /\ authorized
           /\ TotalRpcs(inv[p]) = 0
           /\ inv[p].phone_asks = 0 /\ inv[p].code_asks = 0
           /\ inv[p].password_asks = 0

\* C19: a start on a session that is already authorized returns the client
\* at once, asks no source, sends no RPC and leaves the hash cache, the
\* active phone and the authorized flag alone; so a start after a start
\* that logged in does nothing.
C19_AuthorizedStartReturns ==
    [](C19_AuthorizedState) /\ [][C19_AuthorizedStep]_vars

\* C19 witness: a start with a phone source and a password source returned
\* at once on a client that an earlier call had logged in as a user for
\* phone 1.
C19_Witness_SecondStart ==
    \E p \in Procs :
        /\ inv[p].path = "authorized" /\ inv[p].pc = "returned"
        /\ inv[p].phone = Callable /\ inv[p].password = Callable
        /\ authorized /\ bot = "False" /\ self_phone = "1"
        /\ phone_code_hash["1"] # 0

\* The hash the remote handed out last for phone ph (0: none).
Latest(ph) ==
    LET hs == {h \in 1..MaxHash : issued[h] = ph}
    IN  IF hs = {} THEN 0 ELSE CHOOSE h \in hs : \A g \in hs : g <= h

\* C14: the cache holds for every phone the hash the remote handed out last
\* for that phone (one entry per phone, none for a phone that got none);
\* every SignIn, SignUp and ResendCode request names a phone and carries a
\* hash that was handed out for that very phone, never for another one; and
\* while the request waits for its answer, that hash is the one handed out
\* last for the phone.
C14_HashOfItsPhone ==
    /\ \A ph \in Phones : phone_code_hash[ph] = Latest(ph)
    /\ \A p \in Procs :
          LET q == inv[p].req
          IN  q.kind \in {"SignIn", "SignUp", "ResendCode"} =>
                /\ q.phone \in Phones /\ q.hash \in 1..MaxHash
                /\ issued[q.hash] = q.phone
                /\ inv[p].pc \in {"sign_in", "sign_up", "resend_code"}
                      => q.hash = Latest(q.phone)

\* C14 witness: codes were requested for phone 1 and then for phone 2, and
\* sign_in for phone 1 sends the hash of phone 1 while phone 2 is the
\* active phone.
C14_Witness_TwoPhones ==
    \E p \in Procs :
        /\ inv[p].op = "sign_in" /\ inv[p].pc = "sign_in"
        /\ inv[p].req = [kind |-> "SignIn", phone |-> "1", hash |-> 1]
        /\ self_phone = "2" /\ phone_code_hash["2"] = 2
        /\ issued[1] = "1" /\ issued[2] = "2"

\* C18, the state part: while AcceptTermsOfService waits for its answer, a
\* SignUp of the same call was sent before it, terms of service are cached,
\* and the login is not committed; a call sends the request at most once,
\* and never without a SignUp or without cached terms.
C18_AcceptState ==
    \A p \in Procs :
        LET r == inv[p]
        IN  /\ r.rpcs["AcceptTermsOfService"] <= 1
            /\ r.rpcs["AcceptTermsOfService"] = 1 =>
                  /\ r.rpcs["SignUp"] >= 1 /\ tos # None
                  /\ r.pc \in {"accept_tos", "returned", "raised"}
            /\ r.pc = "accept_tos" =>
                  /\ r.req.kind = "AcceptTermsOfService"
                  /\ ~authorized /\ r.me = None

\* C18, the step part: AcceptTermsOfService is sent only in the step that
\* takes the answer to SignUp, with terms cached, and that step handles no
\* error and does not commit the login; a step that handles a failed SignUp
\* (an attempt consumed, password-required noted, or the error raised)
\* sends nothing and commits nothing; after SignUp the login is committed
\* at once only without cached terms; and the answer to
\* AcceptTermsOfService either commits the login and returns, or raises
\* with the login not committed.
C18_AcceptStep ==
    \A p \in Procs :
        LET r == inv[p]
            r2 == inv'[p]
        IN  /\ r2.rpcs["AcceptTermsOfService"] > r.rpcs["AcceptTermsOfService"]
                  => /\ r.pc = "sign_up" /\ r2.pc = "accept_tos"
                     /\ tos # None /\ ~authorized'
                     /\ r2.attempts = r.attempts /\ r2.err = None
                     /\ ~r2.two_step_detected
            /\ (r.pc = "sign_up"
                /\ (r2.attempts # r.attempts \/ r2.two_step_detected
                    \/ r2.err # None))
                  => /\ r2.rpcs["AcceptTermsOfService"] = 0
                     /\ UNCHANGED <<authorized, bot, self_input_peer>>
            /\ (r.pc = "sign_up" /\ authorized') => tos = None
            /\ (r.pc = "sign_up" /\ tos # None)
                  => \/ r2.pc = "accept_tos"
                     \/ r2.attempts # r.attempts \/ r2.two_step_detected
                     \/ r2.err # None
            /\ r.pc = "accept_tos"
                  => \/ r2.pc = "returned" /\ authorized'
                     \/ /\ r2.pc = "raised"
                        /\ UNCHANGED <<authorized, bot, self_input_peer>>

\* C18: in sign_up, AcceptTermsOfService is sent only after the SignUp RPC
\* of the same call succeeded, before the login is committed, and only with
\* terms of service cached; a failed SignUp never leads to it; and when it
\* fails the login is not committed.
C18_TermsAcceptedBeforeLogin == [](C18_AcceptState) /\ [][C18_AcceptStep]_vars

\* C18 witness: a sign_up call sent SignUp, then AcceptTermsOfService,
\* which failed: the call raised and the session is not authorized.
C18_Witness_AcceptFailed ==
    \E p \in Procs :
        /\ inv[p].op = "sign_up" /\ inv[p].pc = "raised"
        /\ inv[p].err = "FloodWaitError"
        /\ inv[p].rpcs["SignUp"] = 1
        /\ inv[p].rpcs["AcceptTermsOfService"] = 1
        /\ tos = "tos" /\ ~authorized

C20_CacheKeptStep ==
    /\ \A p \in Procs :
          (inv[p].pc = "log_out" /\ inv'[p].result = "True")
          => /\ UNCHANGED <<self_phone, phone_code_hash>>
             /\ ~authorized' /\ session' = "deleted"
    /\ \A ph \in Phones : phone_code_hash[ph] # 0 => phone_code_hash'[ph] # 0
    /\ self_phone # None => self_phone' # None

\* C20, the state part: a send_code_request or a start that finds a hash
\* cached for its phone (entry_hash) sends no SendCode; its first code
\* request is a ResendCode for that phone carrying the cached hash; and
\* start takes its SentCode, hence its sign-up flag, from the answer to the
\* resend.
C20_CacheKeptState ==
    \A p \in Procs :
        LET r == inv[p]
        IN  (r.entry_hash # 0
             /\ (r.op = "send_code_request" \/ r.path = "phone")) =>
              /\ r.rpcs["SendCode"] = 0
              /\ r.rpcs["ResendCode"] >= 1
              /\ (r.pc = "resend_code" /\ r.rpcs["ResendCode"] = 1) =>
                    r.req = [kind |-> "ResendCode",
                             phone |-> parse_phone(r.phone),
                             hash |-> r.entry_hash]
              /\ r.sent_code # None =>
                    /\ r.sent_by = "ResendCode"
                    /\ (r.attempts = 0 /\ r.caught = None)
                          => (r.sign_up <=> r.sent_code = "Unregistered")
              /\ r.err = "RuntimeError" =>
                    /\ self_phone = parse_phone(r.phone)
                    /\ phone_code_hash[self_phone] # 0

\* C20: neither a successful log_out nor a start that ran out of attempts
\* clears the active phone or the hash cache, so a later send_code_request
\* or start for a phone with a cached hash begins with ResendCode carrying
\* that hash, not with SendCode, and start derives sign_up from the result
\* of the resend.
C20_LogOutKeepsCodes == [](C20_CacheKeptState) /\ [][C20_CacheKeptStep]_vars

\* C20 witness: on a client that was logged out (login torn down, session
\* deleted) with hash 1 cached for phone 1, a later start for that phone
\* sent ResendCode with hash 1 and no SendCode, and set sign_up from its
\* answer.
C20_Witness_ResendAfterLogOut ==
    \E p \in Procs :
        /\ session = "deleted" /\ state_cache = "empty" /\ ~authorized
        /\ inv[p].op = "start" /\ inv[p].pc = "code_callback"
        /\ inv[p].entry_hash = 1 /\ issued[1] = "1"
        /\ inv[p].sent_by = "ResendCode" /\ inv[p].sign_up
        /\ inv[p].rpcs["SendCode"] = 0 /\ inv[p].rpcs["ResendCode"] = 1
        /\ phone_code_hash["1"] = 2

\* C16, the state part: a SendCode that waits for its answer names the
\* phone of the call; an invocation has sent one SendCode and one more for
\* every AuthRestartError.
C16_RestartState ==
    \A p \in Procs :
        LET r == inv[p]
        IN  /\ r.pc = "send_code" =>
                  r.req = [kind |-> "SendCode", phone |-> r.scr_phone,
                           hash |-> 0]
            /\ r.rpcs["SendCode"] >= 1 =>
                  r.rpcs["SendCode"] = 1 + r.restarts
            /\ r.restarts >= 1 => r.rpcs["SendCode"] >= 1

\* C16, the step part: the step that takes an AuthRestartError sends
\* SendCode again for the same phone, keeps force_sms, and leaves the hash
\* cache, the terms of service and the active phone as they were; the call
\* still waits, so it has not returned; and a call stays in SendCode only
\* through such a step.
C16_RestartStep ==
    \A p \in Procs :
        LET r == inv[p]
            r2 == inv'[p]
        IN  /\ r2.restarts = r.restarts + 1 =>
                  /\ r.pc = "send_code" /\ r2.pc = "send_code"
                  /\ r2.req = r.req
                  /\ r2.scr_phone = r.scr_phone /\ r2.scr_force = r.scr_force
                  /\ r2.scr_ret = r.scr_ret
                  /\ r2.rpcs["SendCode"] = r.rpcs["SendCode"] + 1
                  /\ r2.rpcs["ResendCode"] = r.rpcs["ResendCode"]
                  /\ UNCHANGED <<phone_code_hash, tos, self_phone, authorized,
                                 hashSeq, issued>>
            /\ (r.pc = "send_code" /\ r2.pc = "send_code")
                  => r2.restarts = r.restarts + 1

StartEnded(p) == inv[p].pc \in {"returned", "raised"}

\* C12 (as claimed): every start invocation ends, in success or in a fatal
\* failure, when every RPC is answered and every callback returns, whatever
\* values the sources return.
C12_StartTerminates ==
    \A p \in Procs : (inv[p].op = "start") ~> StartEnded(p)

\* C12 (amended), the state part: the code source and the password source
\* are each asked at most max_attempts times; while the phone source is
\* asked, nothing else has happened yet.
C12_SolicitationState ==
    \A p \in Procs :
        LET r == inv[p]
        IN  r.op = "start" =>
              /\ r.code_asks <= r.max_attempts
              /\ r.password_asks <= r.max_attempts
              /\ r.pc = "phone_callback" =>
                    /\ r.code_asks = 0 /\ r.password_asks = 0
                    /\ r.attempts = 0 /\ r.tries = 0 /\ TotalRpcs(r) = 0

\* C12 (amended), the step part: an answer of the phone source that is no
\* phone and no bot token leaves start where it was, asking the phone source
\* again: no counter that max_attempts bounds has moved, and nothing but
\* the value (and the count of the asks) has changed.
C12_SolicitationStep ==
    \A p \in Procs :
        LET r == inv[p]
            r2 == inv'[p]
        IN  (r.pc = "phone_callback" /\ r2.value # BotToken
             /\ parse_phone(r2.value) = None)
            => /\ r2 = [r EXCEPT !.value = r2.value,
                                 !.phone_asks = r2.phone_asks]
               /\ r2.phone_asks >= r.phone_asks
               /\ UNCHANGED client

\* C12 (amended): the code and password sources are asked at most
\* max_attempts times each, but the loop over a callable phone source has no
\* budget: every answer that is no phone and no bot token is followed by
\* another ask, whatever max_attempts is.  Once the phone is resolved (path
\* is set), start ends.
C12_BoundedAfterPhone ==
    /\ [](C12_SolicitationState)
    /\ [][C12_SolicitationStep]_vars
    /\ \A p \in Procs :
          (inv[p].op = "start" /\ inv[p].path # None) ~> StartEnded(p)

\* C12 witness: with max_attempts = 0 the phone source has been asked more
\* than MaxPhoneAsks times, and start asks it again.
C12_Witness_PhoneAskedAgain ==
    \E p \in Procs :
        /\ inv[p].op = "start" /\ inv[p].pc = "phone_callback"
        /\ inv[p].max_attempts = 0
        /\ inv[p].phone_asks = MaxPhoneAsks + 1
        /\ inv[p].value = ""

\* C15, the state part, for two interleaved start calls: a SignIn names the
\* phone of its own invocation with a hash handed out for it; a SignUp names
\* a phone together with a hash handed out for that phone, and the phone is
\* the invocation's own or the one the other invocation recorded when its
\* code request was answered; it is the own phone as long as the other
\* invocation has had no code request answered.
C15_RaceState ==
    \A p \in Procs :
        LET r == inv[p]
            o == inv[3 - p]
            own == parse_phone(r.phone)
        IN  r.op = "start" =>
              /\ r.req.kind = "SignIn" =>
                    r.req.phone = own /\ issued[r.req.hash] = own
              /\ r.req.kind = "SignUp" =>
                    /\ issued[r.req.hash] = r.req.phone
                    /\ \/ r.req.phone = own
                       \/ /\ r.req.phone = parse_phone(o.phone)
                          /\ o.sent_code # None
                    /\ o.sent_code = None => r.req.phone = own

\* C15, the step part: a SignUp goes out for the active phone and the hash
\* cached for it, as they are at that moment; and the active phone changes
\* only when the code request of an invocation is answered, to the phone of
\* that invocation.  So without a step of the other invocation in between,
\* SignUp names the phone the invocation asked the code for.
C15_RaceStep ==
    /\ \A p \in Procs :
          (inv'[p].rpcs["SignUp"] > inv[p].rpcs["SignUp"])
          => inv'[p].req = [kind |-> "SignUp", phone |-> self_phone,
                            hash |-> phone_code_hash[self_phone]]
    /\ self_phone' # self_phone
          => \E p \in Procs :
                /\ inv[p].pc = "send_code" /\ inv'[p].pc # "send_code"
                /\ self_phone' = parse_phone(inv[p].phone)

\* C15: two start calls interleaved on one client race on the active phone
\* and the hash cache: SignIn is sent with the invocation's own phone, but
\* SignUp is sent with the active phone, which is the phone of whichever
\* code request was answered last.
C15_RaceOnActivePhone == [](C15_RaceState) /\ [][C15_RaceStep]_vars

\* C15 witness: the invocation that asked the code for phone 1 has sent its
\* SignUp for phone 2, with the hash handed out for phone 2 to the other
\* invocation.
C15_Witness_SignUpForOtherPhone ==
    /\ inv[1].op = "start" /\ inv[1].phone = "+1" /\ inv[1].pc = "sign_up"
    /\ inv[1].req.kind = "SignUp" /\ inv[1].req.phone = "2"
    /\ issued[inv[1].req.hash] = "2"
    /\ inv[2].op = "start" /\ inv[2].phone = "2"

====
